---- MODULE Spec2Model ----
(***************************************************************************)
(* State-machine model of epidemic_modelling/sird_base_model.py : the      *)
(* class SIRD (constructor with its two parameter groups, setup, eqns,     *)
(* solve, get_params, plot).                                               *)
(*                                                                         *)
(* Python numbers are modelled as exact rationals <<n, d>> in lowest terms *)
(* with d > 0, so that every conversion is computed, not assumed; what is  *)
(* checked is therefore the arithmetic of the formulas, without the        *)
(* rounding of IEEE doubles.  The Python value None is <<0, 0>>, which is  *)
(* no rational.  Denominators square at every integration step and TLC's   *)
(* integers have 32 bits, which is what keeps the trajectories short.      *)
(***************************************************************************)
EXTENDS Integers, Sequences, FiniteSets, TLC

(* ------------------------------ bounds --------------------------------- *)
\* the numbers handed to the constructor are the halves n/2, -MaxNum <= n <= MaxNum
MaxNum == 2
\* populations handed to setup/solve: 0 or MaxPop ; cases: -1 .. MaxPop
MaxPop == 2
\* internal steps the solver takes between two grid points: 1 .. MaxSub
MaxSub == 1
\* number of setup/solve calls made on one instance (Spec)
MaxCalls == 1
\* number of solve calls made on one instance (SpecRepeat)
MaxRepeat == 2

(* --------------------------- Python numbers ---------------------------- *)
None == <<0, 0>>

Abs(x) == IF x < 0 THEN -x ELSE x

RECURSIVE GCD(_, _)
GCD(a, b) == IF b = 0 THEN a ELSE GCD(b, a % b)

\* the rational n/d (d # 0) in lowest terms with a positive denominator
Norm(n, d) ==
    LET s == IF d < 0 THEN -1 ELSE 1
        g == GCD(Abs(n), Abs(d))
    IN  <<(s * n) \div g, (s * d) \div g>>

Num(x) == Norm(x, 1)
Zero == Num(0)
One  == Num(1)

\* x + y, -x, x - y, x * y
RAdd(x, y) ==
    LET g == GCD(x[2], y[2])
    IN  Norm(x[1] * (y[2] \div g) + y[1] * (x[2] \div g), (x[2] \div g) * y[2])
RNeg(x) == <<-x[1], x[2]>>
RSub(x, y) == RAdd(x, RNeg(y))
RMul(x, y) ==
    LET g1 == GCD(Abs(x[1]), y[2])
        g2 == GCD(Abs(y[1]), x[2])
    IN  Norm((x[1] \div g1) * (y[1] \div g2), (x[2] \div g2) * (y[2] \div g1))
\* x / y for y # 0 (Python raises ZeroDivisionError for y = 0: see the callers)
RDiv(x, y) == RMul(x, Norm(y[2], y[1]))
RLess(x, y) == x[1] * y[2] < y[1] * x[2]
RLeq(x, y) == x[1] * y[2] <= y[1] * x[2]
RMax(x, y) == IF RLess(x, y) THEN y ELSE x

(* ----------------------------- SIRD.__init__ --------------------------- *)
NoInstance(err) ==
    [status |-> err, R0 |-> None, M |-> None, P |-> None,
     beta |-> None, gamma |-> None, delta |-> None]

\* FromDescriptors with the recovery and death shares exchanged
FromDescriptors_Swapped(R0, M, P) ==
    IF P = Zero THEN NoInstance("ZeroDivisionError")
    ELSE [status |-> "ok", R0 |-> R0, M |-> M, P |-> P,
          beta  |-> RDiv(R0, P),
          gamma |-> RDiv(M, P),
          delta |-> RDiv(RSub(One, M), P)]

\* lines 32-44: the branch taken when R0, M and P are all given
FromDescriptors(R0, M, P) ==
    IF P = Zero THEN NoInstance("ZeroDivisionError")
    ELSE [status |-> "ok", R0 |-> R0, M |-> M, P |-> P,
          beta  |-> RDiv(R0, P),
          gamma |-> RDiv(RSub(One, M), P),
          delta |-> RDiv(M, P)]

\* FromRates without the failing division: P is left unset for gamma + delta = 0
FromRates_NoRaise(beta, gamma, delta) ==
    LET sum == RAdd(gamma, delta)
    IN  [status |-> "ok", beta |-> beta, gamma |-> gamma, delta |-> delta,
         P  |-> IF sum = Zero THEN None ELSE RDiv(One, sum),
         R0 |-> IF sum = Zero THEN None ELSE RDiv(beta, sum),
         M  |-> IF sum = Zero THEN None ELSE RDiv(delta, sum)]

\* lines 45-54: the branch taken when beta, gamma and delta are all given
FromRates(beta, gamma, delta) ==
    IF RAdd(gamma, delta) = Zero THEN NoInstance("ZeroDivisionError")
    ELSE LET P == RDiv(One, RAdd(gamma, delta))
         IN  [status |-> "ok", beta |-> beta, gamma |-> gamma, delta |-> delta,
              P  |-> P,
              R0 |-> RMul(beta, P),
              M  |-> RDiv(delta, RAdd(gamma, delta))]

\* SIRD_init falling back to the rates of lines 146-148 instead of raising
SIRD_init_Defaults(R0, M, P, beta, gamma, delta) ==
    IF R0 # None /\ M # None /\ P # None
    THEN FromDescriptors(R0, M, P)
    ELSE IF beta # None /\ gamma # None /\ delta # None
    THEN FromRates(beta, gamma, delta)
    ELSE FromRates(Norm(2, 10), Norm(7, 10), Norm(1, 10))

\* SIRD_init with its two branches tested in the other order
SIRD_init_RatesFirst(R0, M, P, beta, gamma, delta) ==
    IF beta # None /\ gamma # None /\ delta # None
    THEN FromRates(beta, gamma, delta)
    ELSE IF R0 # None /\ M # None /\ P # None
    THEN FromDescriptors(R0, M, P)
    ELSE NoInstance("ValueError")

SIRD_init(R0, M, P, beta, gamma, delta) ==
    IF R0 # None /\ M # None /\ P # None
    THEN FromDescriptors(R0, M, P)
    ELSE IF beta # None /\ gamma # None /\ delta # None
    THEN FromRates(beta, gamma, delta)
    ELSE NoInstance("ValueError")

(* ------------------------- right-hand side (eqns) ---------------------- *)
dSdt(S, I, beta) == RMul(RMul(RNeg(beta), S), I)

\* dIdt without the flow from infected to deceased
dIdt_NoDeaths(S, I, beta, gamma, delta) ==
    RSub(RMul(RMul(beta, S), I), RMul(gamma, I))

dIdt(S, I, beta, gamma, delta) ==
    RSub(RSub(RMul(RMul(beta, S), I), RMul(gamma, I)), RMul(delta, I))

dRdt(I, gamma) == RMul(gamma, I)

dDdt(I, delta) == RMul(delta, I)

\* y = <<S, I, R, D>> ; t is not used by the equations
eqns(t, y, beta, gamma, delta) ==
    <<dSdt(y[1], y[2], beta),
      dIdt(y[1], y[2], beta, gamma, delta),
      dRdt(y[2], gamma),
      dDdt(y[2], delta)>>

Sum4(y) == RAdd(RAdd(RAdd(y[1], y[2]), y[3]), y[4])

(* ------------------------------ the object ----------------------------- *)
\* The attributes setup and solve create on the instance.  attrs is the set
\* of attribute names present; an absent attribute holds a filler value.
\* call numbers the calls made on the instance; origin records, for each
\* attribute, the call whose assignment it holds (history, not program state).
NoSoln == [success |-> FALSE, t |-> <<>>, y |-> <<>>]
Fresh ==
    [attrs |-> {}, population |-> 0, y0 |-> <<>>, soln |-> NoSoln,
     call |-> 0, origin |-> [population |-> 0, y0 |-> 0, soln |-> 0]]

\* the assignment self.name = value
Assign(self, name, value) ==
    [self EXCEPT !.attrs = @ \cup {name}, ![name] = value, !.origin[name] = self.call]

Return(self, exc, value) == [self |-> self, exc |-> exc, value |-> value]

(* -------------------------------- setup -------------------------------- *)
\* lines 134-141.  population is stored first; the divisions follow, and a
\* division by population = 0 raises after that store.
setup(self, population, cases, recovered, deaths) ==
    LET stored == Assign(self, "population", population)
    IN  IF population = 0
        THEN Return(stored, "ZeroDivisionError", <<>>)
        ELSE LET N == Num(population)
                 initial_S == RDiv(Num(population - cases - recovered - deaths), N)
                 initial_R == RDiv(Num(recovered), N)
                 initial_D == RDiv(Num(deaths), N)
                 initial_I == RDiv(Num(cases), N)
             IN  Return(Assign(stored, "y0",
                               <<initial_S, initial_I, initial_R, initial_D>>),
                        "none", <<>>)

(* ------------------------- the external solver ------------------------- *)
\* np.linspace(0, time_frame, time_frame * 2): the spacing of the grid
Spacing(time_frame) == Norm(time_frame, 2 * time_frame - 1)

\* one integration step of length h from y at time t, driven by eqns
Step(t, y, h, beta, gamma, delta) ==
    LET f == eqns(t, y, beta, gamma, delta)
    IN  [i \in 1..4 |-> RAdd(y[i], RMul(h, f[i]))]

\* k steps of length h from y at time t
RECURSIVE Advance(_, _, _, _, _, _, _)
Advance(t, y, h, k, beta, gamma, delta) ==
    IF k = 0 THEN y
    ELSE Advance(RAdd(t, h), Step(t, y, h, beta, gamma, delta), h, k - 1,
                 beta, gamma, delta)

\* the samples at the first n grid points, the first being y0 at t = 0; the
\* solver takes substeps internal steps from one grid point to the next
RECURSIVE Samples(_, _, _, _, _, _, _)
Samples(y0, spacing, n, substeps, beta, gamma, delta) ==
    IF n = 1 THEN <<y0>>
    ELSE LET prev == Samples(y0, spacing, n - 1, substeps, beta, gamma, delta)
         IN  Append(prev, Advance(RMul(Num(n - 2), spacing), prev[n - 1],
                                  RDiv(spacing, Num(substeps)), substeps,
                                  beta, gamma, delta))

\* solve_ivp(eqns, (0, time_frame), y0, args, t_eval) for time_frame >= 1.
\* reached = 2 * time_frame: the integration succeeded; fewer: the solver
\* stopped early and reports success = False with the samples it reached.
solve_ivp(y0, time_frame, reached, substeps, beta, gamma, delta) ==
    LET spacing == Spacing(time_frame)
    IN  [success |-> reached = 2 * time_frame,
         t |-> [k \in 1..reached |-> RMul(Num(k - 1), spacing)],
         y |-> Samples(y0, spacing, reached, substeps, beta, gamma, delta)]

(* -------------------------------- solve -------------------------------- *)
Keys == {"population", "cases", "recovered", "deaths"}

\* lines 172-191.  The four subscripts are evaluated before setup is called;
\* np.linspace raises for a negative number of samples, after setup returned.
solve(self, params, initial_conditions, time_frame, reached, substeps) ==
    IF ~(Keys \subseteq DOMAIN initial_conditions)
    THEN Return(self, "KeyError", <<>>)
    ELSE LET s == setup(self, initial_conditions["population"],
                        initial_conditions["cases"],
                        initial_conditions["recovered"],
                        initial_conditions["deaths"])
         IN  IF s.exc # "none" THEN s
             ELSE IF time_frame < 0 THEN Return(s.self, "ValueError", <<>>)
             ELSE Return(Assign(s.self, "soln",
                                solve_ivp(s.self.y0, time_frame, reached, substeps,
                                          params.beta, params.gamma, params.delta)),
                         "none", <<>>)

(* ------------------------------ accessors ------------------------------ *)
Last(seq) == seq[Len(seq)]

\* get_params answering with an empty state when nothing was solved
get_params_Default(self) ==
    IF "soln" \notin self.attrs
    THEN Return(self, "none", <<Zero, Zero, Zero, Zero, Zero>>)
    ELSE LET params == Last(self.soln.y)
         IN  Return(self, "none",
                    <<params[1], params[2], params[3], params[4], Sum4(params)>>)

\* lines 193-202: the last sample and its sum
get_params(self) ==
    IF "soln" \notin self.attrs
    THEN Return(self, "AttributeError", <<>>)
    ELSE LET params == Last(self.soln.y)
         IN  Return(self, "none",
                    <<params[1], params[2], params[3], params[4], Sum4(params)>>)

RECURSIVE MaxI(_, _)
MaxI(y, n) == IF n = 1 THEN y[1][2] ELSE RMax(MaxI(y, n - 1), y[n][2])

\* lines 204-217: the figures plot prints, rescaled by the stored population:
\* deaths, recovered, peak infected and infected at the last sample
plot(self) ==
    IF "soln" \notin self.attrs
    THEN Return(self, "AttributeError", <<>>)
    ELSE LET y == self.soln.y
             N == Num(self.population)
         IN  Return(self, "none",
                    <<RMul(Last(y)[4], N), RMul(Last(y)[3], N),
                      RMul(MaxI(y, Len(y)), N), RMul(Last(y)[2], N)>>)

(* ------------------------------ the state ------------------------------ *)
VARIABLES
    pc,      \* "start" | "constructed" | "converted"
    args,    \* the six arguments of the constructor call
    inst,    \* the instance the constructor produced, or the error it raised
    inst2,   \* the instance constructed from inst's derived group
    self,    \* the attributes setup and solve keep on the instance
    result   \* the last call: its name, the exception it raised, its value

vars == <<pc, args, inst, inst2, self, result>>

(* ------------------------------- inputs -------------------------------- *)
Numbers == {Norm(n, 2) : n \in -MaxNum..MaxNum}
ArgVals == Numbers \cup {None}
ArgNames == {"R0", "M", "P", "beta", "gamma", "delta"}

\* the constructor calls whose instances are run through setup and solve
RunArgs ==
    { [R0 |-> None, M |-> None, P |-> None,
       beta |-> Num(2), gamma |-> Num(1), delta |-> Norm(1, 2)],
      [R0 |-> Num(1), M |-> Norm(1, 2), P |-> Num(1),
       beta |-> None, gamma |-> None, delta |-> None] }

\* initial_conditions dictionaries: complete ones, and one without "deaths"
Complete ==
    { [population |-> p, cases |-> c, recovered |-> r, deaths |-> d] :
        p \in {0, MaxPop}, c \in -1..MaxPop, r \in {0, 1}, d \in {0, 1} }
Conditions ==
    Complete \cup {[population |-> MaxPop, cases |-> 1, recovered |-> 0]}

\* time_frame: a negative one, and one day (a grid of two points)
TimeFrames == {-1, 1}

\* what the solver can do: the grid points it gets to and the internal steps
\* it takes between two of them; it is not called for time_frame < 0, and
\* takes no step when it stops at the first grid point
Outcomes(time_frame) ==
    IF time_frame < 0 THEN {<<0, 0>>}
    ELSE {<<1, 0>>} \cup ((2..(2 * time_frame)) \X (1..MaxSub))

NoCall == [op |-> "none", exc |-> "none", value |-> <<>>]

(* ------------------------------- actions ------------------------------- *)
Init ==
    /\ pc = "start"
    /\ args \in RunArgs
    /\ inst = NoInstance("none")
    /\ inst2 = NoInstance("none")
    /\ self = Fresh
    /\ result = NoCall

InitParams ==
    /\ pc = "start"
    /\ args \in [ArgNames -> ArgVals]
    /\ inst = NoInstance("none")
    /\ inst2 = NoInstance("none")
    /\ self = Fresh
    /\ result = NoCall

\* SIRD(R0, M, P, beta, gamma, delta)
Construct ==
    /\ pc = "start"
    /\ inst' = SIRD_init(args.R0, args.M, args.P, args.beta, args.gamma, args.delta)
    /\ pc' = "constructed"
    /\ result' = [op |-> "SIRD", exc |-> IF inst'.status = "ok" THEN "none" ELSE inst'.status,
                  value |-> <<>>]
    /\ UNCHANGED <<args, inst2, self>>

\* a second instance, constructed from the group the first one derived
Convert ==
    /\ pc = "constructed"
    /\ inst.status = "ok"
    /\ inst2' = IF args.R0 # None /\ args.M # None /\ args.P # None
                THEN SIRD_init(None, None, None, inst.beta, inst.gamma, inst.delta)
                ELSE SIRD_init(inst.R0, inst.M, inst.P, None, None, None)
    /\ pc' = "converted"
    /\ UNCHANGED <<args, inst, self, result>>

Usable == pc = "constructed" /\ inst.status = "ok"

\* model.setup(population, cases, recovered, deaths)
Setup ==
    /\ Usable
    /\ self.call < MaxCalls
    /\ \E ic \in Complete :
         LET r == setup([self EXCEPT !.call = @ + 1],
                        ic.population, ic.cases, ic.recovered, ic.deaths)
         IN  /\ self' = r.self
             /\ result' = [op |-> "setup", exc |-> r.exc, value |-> r.value]
    /\ UNCHANGED <<pc, args, inst, inst2>>

\* model.solve(initial_conditions, time_frame), at most maxCalls times
SolveUpTo(maxCalls) ==
    /\ Usable
    /\ self.call < maxCalls
    /\ \E ic \in Conditions, time_frame \in TimeFrames :
         \E o \in Outcomes(time_frame) :
           LET r == solve([self EXCEPT !.call = @ + 1], inst, ic, time_frame, o[1], o[2])
           IN  /\ self' = r.self
               /\ result' = [op |-> "solve", exc |-> r.exc, value |-> r.value]
    /\ UNCHANGED <<pc, args, inst, inst2>>

Solve == SolveUpTo(MaxCalls)

SolveAgain == SolveUpTo(MaxRepeat)

\* model.get_params()
GetParams ==
    /\ Usable
    /\ LET r == get_params(self)
       IN  /\ self' = r.self
           /\ result' = [op |-> "get_params", exc |-> r.exc, value |-> r.value]
    /\ UNCHANGED <<pc, args, inst, inst2>>

\* model.plot()
Plot ==
    /\ Usable
    /\ LET r == plot(self)
       IN  /\ self' = r.self
           /\ result' = [op |-> "plot", exc |-> r.exc, value |-> r.value]
    /\ UNCHANGED <<pc, args, inst, inst2>>

Next == Construct \/ Setup \/ Solve \/ GetParams \/ Plot

Spec == Init /\ [][Next]_vars

NextParams == Construct \/ Convert

SpecParams == InitParams /\ [][NextParams]_vars

\* one instance solved again and again, never set up by the caller
NextRepeat == Construct \/ SolveAgain \/ GetParams \/ Plot

SpecRepeat == Init /\ [][NextRepeat]_vars

(* =============================== claims =============================== *)
Descriptors == {"R0", "M", "P"}
Rates == {"beta", "gamma", "delta"}
Given(group) == \A n \in group : args[n] # None
Constructed == pc # "start"
NonNegative(x) == RLeq(Zero, x)

(* ---- C1 : conservation ------------------------------------------------ *)
DerivativesCancel(y, beta, gamma, delta) ==
    Sum4(eqns(Zero, y, beta, gamma, delta)) = Zero

C2_IncompleteRejected ==
    Constructed /\ ~Given(Descriptors) /\ ~Given(Rates) =>
        /\ inst.status = "ValueError"
        /\ result.exc = "ValueError"
        /\ inst.beta = None /\ inst.gamma = None /\ inst.delta = None

\* a partial group (only R0 and M) is rejected
C2_Witness ==
    /\ Constructed
    /\ args.R0 # None /\ args.M # None /\ args.P = None
    /\ args.beta = None /\ args.gamma = None /\ args.delta = None
    /\ inst.status = "ValueError"

(* ---- C3 : both groups complete ---------------------------------------- *)
\* C3 as stated: when both groups are fully supplied, construction fails
\* and produces no instance.
C3_BothRejected ==
    Constructed /\ Given(Descriptors) /\ Given(Rates) => inst.status # "ok"

\* C3 amended: when both groups are fully supplied the (R0, M, P) group is
\* used and the supplied beta, gamma, delta are ignored: the instance keeps
\* R0, M, P and its rates satisfy beta*P = R0, gamma*P = 1 - M, delta*P = M;
\* construction fails only by the division by zero for P = 0.
C3_DescriptorsWin ==
    Constructed /\ Given(Descriptors) /\ Given(Rates) =>
        IF args.P = Zero
        THEN inst.status = "ZeroDivisionError"
        ELSE /\ inst.status = "ok"
             /\ inst.R0 = args.R0 /\ inst.M = args.M /\ inst.P = args.P
             /\ RMul(inst.beta, args.P) = args.R0
             /\ RMul(inst.gamma, args.P) = RSub(One, args.M)
             /\ RMul(inst.delta, args.P) = args.M

\* both groups supplied, and the instance's rates are not the supplied ones
C3_Witness ==
    /\ Constructed /\ Given(Descriptors) /\ Given(Rates)
    /\ inst.status = "ok"
    /\ inst.beta # args.beta /\ inst.gamma # args.gamma /\ inst.delta # args.delta

(* ---- C4 : invalid initial conditions ---------------------------------- *)
\* C4: no initial state with a fraction outside [0, 1] is stored, and no
\* trajectory is produced from one.
C4_InitialConditionsChecked ==
    /\ "y0" \in self.attrs =>
         \A i \in 1..4 : NonNegative(self.y0[i]) /\ RLeq(self.y0[i], One)
    /\ "soln" \in self.attrs =>
         \A i \in 1..4 : NonNegative(self.soln.y[1][i]) /\ RLeq(self.soln.y[1][i], One)

(* ---- C5 : accessors before solve -------------------------------------- *)
\* C5: get_params or plot called on an instance on which no solve call has
\* completed raises an error and returns no value.
C5_NotSolvedRaises ==
    result.op \in {"get_params", "plot"} /\ "soln" \notin self.attrs =>
        /\ result.exc = "AttributeError"
        /\ result.value = <<>>

\* get_params on an instance that was set up but never solved
C5_Witness ==
    /\ result.op = "get_params"
    /\ "y0" \in self.attrs /\ "soln" \notin self.attrs
    /\ result.exc = "AttributeError"

(* ---- C6 : solver failure ---------------------------------------------- *)
\* C6: a result the solver reports as not successful (it stopped short of
\* the grid) is never stored as the trajectory.
C6_FailureNotStored ==
    "soln" \in self.attrs =>
        /\ self.soln.success
        /\ Len(self.soln.y) = Len(self.soln.t)

(* ---- C7 : round trip -------------------------------------------------- *)
\* C7: in exact arithmetic, constructing from one group, reading the derived other group and
\* constructing a second instance from it succeeds and yields the values
\* the first instance was constructed from and derived.
C7_RoundTrip ==
    pc = "converted" =>
        /\ inst2.status = "ok"
        /\ \A n \in ArgNames : inst2[n] = inst[n]

\* a round trip from rates with beta > 0, gamma, delta >= 0, gamma # delta
C7_Witness ==
    /\ pc = "converted"
    /\ ~Given(Descriptors) /\ Given(Rates)
    /\ RLess(Zero, args.beta) /\ RLess(Zero, args.gamma) /\ RLess(Zero, args.delta)
    /\ args.gamma # args.delta
    /\ inst.P # One
    /\ inst2.beta = args.beta /\ inst2.gamma = args.gamma /\ inst2.delta = args.delta

(* ---- C8 : degenerate parameters --------------------------------------- *)
DegenerateDescriptors == Given(Descriptors) /\ args.P = Zero
DegenerateRates == Given(Rates) /\ RAdd(args.gamma, args.delta) = Zero

\* C8 as stated: P = 0 in a supplied (R0, M, P) group, or gamma + delta = 0
\* in a supplied (beta, gamma, delta) group, makes construction fail.
C8_DegenerateRejected ==
    Constructed /\ (DegenerateDescriptors \/ DegenerateRates) => inst.status # "ok"

\* C8 amended: P = 0 in a supplied (R0, M, P) group, or gamma + delta = 0 in
\* a supplied (beta, gamma, delta) group when (R0, M, P) is not also fully
\* supplied, makes construction raise ZeroDivisionError, and no instance
\* with derived coefficients or descriptors is produced.
C8_UsedGroupDegenerate ==
    Constructed /\ (DegenerateDescriptors \/ (~Given(Descriptors) /\ DegenerateRates)) =>
        /\ inst.status = "ZeroDivisionError"
        /\ result.exc = "ZeroDivisionError"
        /\ \A n \in ArgNames : inst[n] = None

\* gamma = 0 and delta = 0 supplied directly
C8_Witness ==
    /\ Constructed
    /\ ~Given(Descriptors)
    /\ args.beta # None /\ args.gamma = Zero /\ args.delta = Zero
    /\ inst.status = "ZeroDivisionError"

(* ---- C9 : out-of-range parameters ------------------------------------- *)
\* C9: every constructed instance has M in [0, 1] and non-negative R0, P,
\* beta, gamma and delta.
C9_RangesChecked ==
    Constructed /\ inst.status = "ok" =>
        /\ NonNegative(inst.M) /\ RLeq(inst.M, One)
        /\ NonNegative(inst.R0) /\ NonNegative(inst.P)
        /\ NonNegative(inst.beta) /\ NonNegative(inst.gamma) /\ NonNegative(inst.delta)

(* ---- C10 : repeated solve calls --------------------------------------- *)
\* C10: after any sequence of solve calls the stored population, the stored
\* y0 and the stored trajectory were all assigned by the same solve call.
C10_SameCall ==
    "soln" \in self.attrs =>
        /\ self.origin.population = self.origin.soln
        /\ self.origin.y0 = self.origin.soln

====
